---- MODULE Spec2Model ----
(***************************************************************************)
(* Model of src/main.rs: the JsonValue enum, JsonValue::parse with its     *)
(* helpers, and the Display implementation behind to_string.               *)
(*                                                                         *)
(* Text is a sequence of ASCII codes, so that slicing, trimming, splitting *)
(* and the byte-wise ordering of Vec<String>::sort are computed and not    *)
(* assumed.  A call ends in Ok(value), Err(message) or a panic.            *)
(***************************************************************************)
EXTENDS Integers, Sequences, FiniteSets, TLC

VARIABLES src, input, value, entries, out, pc, pairs, idx, map, result

vars == <<src, input, value, entries, out, pc, pairs, idx, map, result>>

(***************************************************************************)
(* Characters                                                              *)
(***************************************************************************)
DQUOTE == 34
LBRACE == 123
RBRACE == 125
COMMA == 44
COLON == 58
SPACE == 32
PLUS == 43
MINUS == 45
DOT == 46
DIGIT0 == 48
DIGIT9 == 57

LitTrue == <<116, 114, 117, 101>>
LitFalse == <<102, 97, 108, 115, 101>>
LitNull == <<110, 117, 108, 108>>
LitTru == <<116, 114, 117>>

(***************************************************************************)
(* Bounds of the model                                                     *)
(***************************************************************************)
MaxLen == 4
MaxSegs == 2
MaxEntries == 2

(***************************************************************************)
(* enum JsonValue.  Every value is a record of the same shape; the field   *)
(* that belongs to the variant carries the payload.  A HashMap is the set  *)
(* of its (key, value) entries.  A number is sign, decimal mantissa and    *)
(* count of fractional digits, without trailing fractional zeros.          *)
(***************************************************************************)
NoNum == [neg |-> FALSE, mant |-> 0, exp |-> 0]

JsonNull == [tag |-> "Null", s |-> <<>>, n |-> NoNum, b |-> FALSE, m |-> {}]

JsonString(str) == [tag |-> "String", s |-> str, n |-> NoNum, b |-> FALSE, m |-> {}]

JsonNumber(num) == [tag |-> "Number", s |-> <<>>, n |-> num, b |-> FALSE, m |-> {}]

JsonBoolean(bool) == [tag |-> "Boolean", s |-> <<>>, n |-> NoNum, b |-> bool, m |-> {}]

JsonObject(hm) == [tag |-> "Object", s |-> <<>>, n |-> NoNum, b |-> FALSE, m |-> hm]

Entry(k, v) == [key |-> k, value |-> v]

(* Result<JsonValue, String>, plus the panic of an out-of-order slice.     *)
Ok(v) == [kind |-> "Ok", value |-> v, msg |-> ""]

Err(message) == [kind |-> "Err", value |-> JsonNull, msg |-> message]

Panic == [kind |-> "Panic", value |-> JsonNull, msg |-> "slice index starts after its end"]

NoResult == [kind |-> "None", value |-> JsonNull, msg |-> ""]

(***************************************************************************)
(* str helpers of the standard library, as main.rs uses them               *)
(***************************************************************************)
(* The ASCII characters of White_Space, which str::trim removes.           *)
Whitespace == {9, 10, 11, 12, 13, SPACE}

RECURSIVE trim_start_matches(_, _)
trim_start_matches(s, C) ==
    IF s # <<>> /\ Head(s) \in C THEN trim_start_matches(Tail(s), C) ELSE s

RECURSIVE trim_end_matches(_, _)
trim_end_matches(s, C) ==
    IF s # <<>> /\ s[Len(s)] \in C
    THEN trim_end_matches(SubSeq(s, 1, Len(s) - 1), C)
    ELSE s

trim(s) == trim_end_matches(trim_start_matches(s, Whitespace), Whitespace)

trim_matches(s, c) == trim_end_matches(trim_start_matches(s, {c}), {c})

starts_with(s, c) == s # <<>> /\ s[1] = c

ends_with(s, c) == s # <<>> /\ s[Len(s)] = c

(* &input[from..to] on ASCII text: defined only when from <= to <= len.    *)
slice_ok(s, from, to) == from <= to /\ to <= Len(s)

slice(s, from, to) == SubSeq(s, from + 1, to)

(* input.split(c): the pieces between the occurrences of c; the empty      *)
(* string yields one empty piece.                                          *)
RECURSIVE split(_, _)
split(s, c) ==
    IF \E i \in 1..Len(s) : s[i] = c
    THEN LET i == CHOOSE k \in 1..Len(s) :
                     s[k] = c /\ \A j \in 1..(k - 1) : s[j] # c
         IN  <<SubSeq(s, 1, i - 1)>> \o split(SubSeq(s, i + 1, Len(s)), c)
    ELSE <<s>>

(* A plausible slip: cutting at the last separator instead of the first.   *)
splitn2_last(s, c) ==
    IF \E i \in 1..Len(s) : s[i] = c
    THEN LET i == CHOOSE k \in 1..Len(s) :
                     s[k] = c /\ \A j \in (k + 1)..Len(s) : s[j] # c
         IN  <<SubSeq(s, 1, i - 1), SubSeq(s, i + 1, Len(s))>>
    ELSE <<s>>

(* pair.splitn(2, c): cut at the first c only.                             *)
splitn2(s, c) ==
    IF \E i \in 1..Len(s) : s[i] = c
    THEN LET i == CHOOSE k \in 1..Len(s) :
                     s[k] = c /\ \A j \in 1..(k - 1) : s[j] # c
         IN  <<SubSeq(s, 1, i - 1), SubSeq(s, i + 1, Len(s))>>
    ELSE <<s>>

(***************************************************************************)
(* f64: str::parse::<f64> and Display.  The texts of this model hold no    *)
(* exponent marker next to a digit and no spelling of inf or nan, and over *)
(* such texts the accepted literals are  sign? digits [. digits]  and      *)
(* sign? . digits ; they are short enough to be exact as decimals.         *)
(***************************************************************************)
IsDigit(c) == c \in DIGIT0..DIGIT9

RECURSIVE digits_value(_)
digits_value(s) ==
    IF s = <<>> THEN 0
    ELSE digits_value(SubSeq(s, 1, Len(s) - 1)) * 10 + (s[Len(s)] - DIGIT0)

RECURSIVE normal(_)
normal(num) ==
    IF num.exp > 0 /\ num.mant % 10 = 0
    THEN normal([neg |-> num.neg, mant |-> num.mant \div 10, exp |-> num.exp - 1])
    ELSE num

f64_from_str(s) ==
    LET signed == s # <<>> /\ Head(s) \in {PLUS, MINUS}
        body   == IF signed THEN Tail(s) ELSE s
        dots   == {i \in 1..Len(body) : body[i] = DOT}
        d      == IF dots = {} THEN Len(body) + 1 ELSE CHOOSE i \in dots : TRUE
        ip     == SubSeq(body, 1, d - 1)
        fp     == SubSeq(body, d + 1, Len(body))
        valid  == /\ Cardinality(dots) <= 1
                  /\ \A i \in 1..Len(ip) : IsDigit(ip[i])
                  /\ \A i \in 1..Len(fp) : IsDigit(fp[i])
                  /\ Len(ip) + Len(fp) >= 1
    IN  IF valid
        THEN [ok |-> TRUE,
              num |-> normal([neg |-> signed /\ Head(s) = MINUS,
                              mant |-> digits_value(ip \o fp),
                              exp |-> Len(fp)])]
        ELSE [ok |-> FALSE, num |-> NoNum]

RECURSIVE digits_of(_)
digits_of(k) ==
    IF k < 10 THEN <<DIGIT0 + k>> ELSE digits_of(k \div 10) \o <<DIGIT0 + (k % 10)>>

RECURSIVE pad_left(_, _)
pad_left(s, width) == IF Len(s) >= width THEN s ELSE pad_left(<<DIGIT0>> \o s, width)

f64_display(num) ==
    LET ds == pad_left(digits_of(num.mant), num.exp + 1)
        k  == Len(ds) - num.exp
    IN  (IF num.neg THEN <<MINUS>> ELSE <<>>)
        \o SubSeq(ds, 1, k)
        \o (IF num.exp > 0 THEN <<DOT>> \o SubSeq(ds, k + 1, Len(ds)) ELSE <<>>)

(* f64 == f64: negative zero equals zero.                                  *)
f64_eq(a, b) == (a.mant = 0 /\ b.mant = 0) \/ a = b

(***************************************************************************)
(* HashMap::insert: the entry of the key is replaced.                      *)
(***************************************************************************)
insert_keep_both(hm, k, v) == hm \cup {Entry(k, v)}

insert(hm, k, v) == {e \in hm : e.key # k} \cup {Entry(k, v)}

(***************************************************************************)
(* impl JsonValue: parse and its helpers                                   *)
(***************************************************************************)
parse_string(inp) ==
    IF starts_with(inp, DQUOTE) /\ ends_with(inp, DQUOTE)
    THEN IF slice_ok(inp, 1, Len(inp) - 1)
         THEN Ok(JsonString(slice(inp, 1, Len(inp) - 1)))
         ELSE Panic
    ELSE Err("Invalid string format")

parse_number(inp) ==
    LET r == f64_from_str(inp)
    IN  IF r.ok THEN Ok(JsonNumber(r.num)) ELSE Err("Invalid number format")

parse_boolean_always_true(inp) ==
    IF inp = LitTrue \/ inp = LitFalse
    THEN Ok(JsonBoolean(TRUE))
    ELSE Err("Invalid boolean format")

parse_boolean(inp) ==
    IF inp = LitTrue THEN Ok(JsonBoolean(TRUE))
    ELSE IF inp = LitFalse THEN Ok(JsonBoolean(FALSE))
    ELSE Err("Invalid boolean format")

(* The iterator `pairs` of parse_object: each comma piece cut at its first *)
(* colon, the parts trimmed.                                               *)
make_pairs(inp) ==
    LET pieces == split(inp, COMMA)
    IN  [i \in 1..Len(pieces) |->
            LET parts == splitn2(pieces[i], COLON)
            IN  [j \in 1..Len(parts) |-> trim(parts[j])]]

(* A stricter match than the code's: both parts must be non-empty.         *)
is_key_value_non_empty(pair) == Len(pair) = 2 /\ pair[1] # <<>> /\ pair[2] # <<>>

(* `if let [key, value] = pair.as_slice()`                                 *)
is_key_value(pair) == Len(pair) = 2

(* A plausible slip: the quotes around the key are kept.                   *)
pair_key_quoted(pair) == pair[1]

(* `let key = key.trim_matches('"')`                                       *)
pair_key(pair) == trim_matches(pair[1], DQUOTE)

RECURSIVE parse(_)
RECURSIVE parse_pairs(_, _)

(* The for loop of parse_object over the remaining pairs.                  *)
parse_pairs(ps, hm) ==
    IF ps = <<>> THEN Ok(JsonObject(hm))
    ELSE LET pair == Head(ps)
         IN  IF is_key_value(pair)
             THEN LET v == parse(pair[2])
                  IN  IF v.kind = "Ok"
                      THEN parse_pairs(Tail(ps), insert(hm, pair_key(pair), v.value))
                      ELSE v
             ELSE Err("Invalid object entry")

parse_object(inp) == parse_pairs(make_pairs(inp), {})

parse(raw) ==
    LET inp == trim(raw)
    IN  IF inp = <<>> THEN Err("Empty input")
        ELSE IF Head(inp) = DQUOTE THEN parse_string(inp)
        ELSE IF Head(inp) = LBRACE
             THEN IF slice_ok(inp, 1, Len(inp) - 1)
                  THEN parse_object(slice(inp, 1, Len(inp) - 1))
                  ELSE Panic
        ELSE IF inp = LitTrue \/ inp = LitFalse THEN parse_boolean(inp)
        ELSE IF inp = LitNull THEN Ok(JsonNull)
        ELSE parse_number(inp)

(***************************************************************************)
(* impl fmt::Display for JsonValue                                         *)
(***************************************************************************)
(* String's Ord: byte-wise lexicographic, a proper prefix first.           *)
str_lt(a, b) ==
    \/ \E i \in 1..Len(a) :
          /\ i <= Len(b)
          /\ \A j \in 1..(i - 1) : a[j] = b[j]
          /\ a[i] < b[i]
    \/ Len(a) < Len(b) /\ \A j \in 1..Len(a) : a[j] = b[j]

RECURSIVE insert_sorted(_, _)
insert_sorted(x, s) ==
    IF s = <<>> THEN <<x>>
    ELSE IF str_lt(x, Head(s)) THEN <<x>> \o s
    ELSE <<Head(s)>> \o insert_sorted(x, Tail(s))

(* entries.sort()                                                          *)
RECURSIVE sort(_)
sort(s) == IF s = <<>> THEN <<>> ELSE insert_sorted(Head(s), sort(Tail(s)))

(* entries.join(sep)                                                       *)
RECURSIVE join(_, _)
join(s, sep) ==
    IF s = <<>> THEN <<>>
    ELSE IF Len(s) = 1 THEN s[1]
    ELSE s[1] \o <<sep>> \o join(Tail(s), sep)

(* The orders in which map.iter() may yield the entries of a HashMap.      *)
iter_orders(hm) ==
    {f \in [1..Cardinality(hm) -> hm] :
        \A i, j \in 1..Cardinality(hm) : f[i] = f[j] => i = j}

RECURSIVE to_string(_)

(* format!("\"{}\":{}", k, v)                                              *)
fmt_entry(e) == <<DQUOTE>> \o e.key \o <<DQUOTE, COLON>> \o to_string(e.value)

(* The Object arm, given the order in which the map was iterated.          *)
fmt_object(order) ==
    LET es == [i \in 1..Len(order) |-> fmt_entry(order[i])]
    IN  <<LBRACE>> \o join(sort(es), COMMA) \o <<RBRACE>>

to_string(v) ==
    CASE v.tag = "String"  -> <<DQUOTE>> \o v.s \o <<DQUOTE>>
      [] v.tag = "Number"  -> f64_display(v.n)
      [] v.tag = "Boolean" -> IF v.b THEN LitTrue ELSE LitFalse
      [] v.tag = "Null"    -> LitNull
      [] v.tag = "Object"  -> fmt_object(CHOOSE f \in iter_orders(v.m) : TRUE)

(* #[derive(PartialEq)] on JsonValue: structural, maps compared as maps,   *)
(* numbers by f64 equality.                                                *)
RECURSIVE value_eq(_, _)
value_eq(x, y) ==
    /\ x.tag = y.tag
    /\ CASE x.tag = "String"  -> x.s = y.s
         [] x.tag = "Number"  -> f64_eq(x.n, y.n)
         [] x.tag = "Boolean" -> x.b = y.b
         [] x.tag = "Null"    -> TRUE
         [] x.tag = "Object"  ->
               /\ {e.key : e \in x.m} = {e.key : e \in y.m}
               /\ \A e \in x.m : \A g \in y.m :
                     e.key = g.key => value_eq(e.value, g.value)

(***************************************************************************)
(* Inputs: every text over Alphabet up to MaxLen characters, the literal   *)
(* tokens, and object texts of up to MaxSegs comma pieces (those of two    *)
(* pieces also with whitespace around the braces).                         *)
(***************************************************************************)
Alphabet == {DQUOTE, LBRACE, RBRACE, COMMA, COLON, SPACE, 97, 49}

Strings(A, n) == UNION {[1..k -> A] : k \in 0..n}

TokenTexts ==
    {LitTrue, LitFalse, LitNull, LitTru,
     <<SPACE>> \o LitTrue \o <<10>>, <<SPACE>> \o LitNull,
     <<MINUS, 49, DOT, 53>>, <<52, 50>>, <<52, 50, DOT, 97, 98, 99>>,
     <<DQUOTE, 97, 98, 99>>, <<DQUOTE, 72, 101, 108, 108, 111, DQUOTE>>}

KeyTexts == {<<DQUOTE, 97, DQUOTE>>, <<97>>, <<SPACE, DQUOTE, 98, DQUOTE, SPACE>>, <<>>}

ValueTexts ==
    {<<49>>, <<SPACE>> \o LitTrue, <<DQUOTE, 97, COLON, 49, DQUOTE>>, LitTru, <<>>,
     <<LBRACE, DQUOTE, 98, DQUOTE, COLON, 49, RBRACE>>}

SegTexts ==
    {k \o <<COLON>> \o v : k \in KeyTexts, v \in ValueTexts} \cup {<<97>>, <<>>}

RECURSIVE SegLists(_)
SegLists(n) ==
    IF n = 0 THEN {<<>>}
    ELSE LET shorter == SegLists(n - 1)
         IN  shorter \cup {<<sg>> \o l : sg \in SegTexts, l \in {x \in shorter : Len(x) = n - 1}}

ObjectTexts ==
    {<<LBRACE>> \o join(l, COMMA) \o <<RBRACE>> : l \in SegLists(MaxSegs) \ {<<>>}}
    \cup {<<SPACE, 10>> \o <<LBRACE>> \o join(l, COMMA) \o <<RBRACE>> \o <<10, SPACE>> :
              l \in {x \in SegLists(MaxSegs) : Len(x) = 2}}

Inputs == Strings(Alphabet, MaxLen) \cup TokenTexts \cup ObjectTexts

(***************************************************************************)
(* Values handed to to_string: leaves, and objects of up to MaxEntries     *)
(* entries whose values are leaves or small nested objects.                *)
(***************************************************************************)
Texts == {<<>>, <<97>>, <<COMMA>>, <<97, COMMA, 97>>, <<DQUOTE>>}

Num(neg, mant) == [neg |-> neg, mant |-> mant, exp |-> 0]

Leaves ==
    {JsonString(s) : s \in Texts}
    \cup {JsonNumber(Num(FALSE, 1)), JsonNumber(Num(TRUE, 2))}
    \cup {JsonBoolean(TRUE), JsonBoolean(FALSE), JsonNull}

InnerKeys == {<<98>>, <<99>>}

InnerObjects ==
    {JsonObject({Entry(k, JsonNumber(Num(FALSE, 1))) : k \in K}) :
        K \in {{}, {<<98>>}, InnerKeys}}

Keys == {<<97>>, <<97, 33>>, <<98>>}

ObjectsOver(vals) ==
    UNION {{JsonObject({Entry(k, f[k]) : k \in K}) : f \in [K -> vals]} :
              K \in {S \in SUBSET Keys : Cardinality(S) <= MaxEntries}}

Values == Leaves \cup ObjectsOver(Leaves \cup InnerObjects)

(***************************************************************************)
(* The state machine: a text is parsed, or a value is written by to_string *)
(* and the text it wrote is parsed.                                        *)
(***************************************************************************)
Init ==
    /\ \/ src = "text" /\ input \in Inputs /\ value = JsonNull /\ pc = "start"
       \/ src = "value" /\ input = <<>> /\ value \in Values /\ pc = "fmt"
    /\ entries = <<>>
    /\ out = <<>>
    /\ pairs = <<>>
    /\ idx = 1
    /\ map = {}
    /\ result = NoResult

(* value.to_string(): Display::fmt, the HashMap yielding its entries in    *)
(* some order.                                                             *)
Fmt ==
    /\ pc = "fmt"
    /\ \E order \in iter_orders(value.m) :
          /\ entries' = [i \in 1..Len(order) |-> fmt_entry(order[i])]
          /\ out' = IF value.tag = "Object" THEN fmt_object(order) ELSE to_string(value)
    /\ pc' = "formatted"
    /\ UNCHANGED <<src, input, value, pairs, idx, map, result>>

(* JsonValue::parse is called on the text to_string wrote.                 *)
ParseOutput ==
    /\ pc = "formatted"
    /\ input' = out
    /\ pc' = "start"
    /\ UNCHANGED <<src, value, entries, out, pairs, idx, map, result>>

(* JsonValue::parse: trim and dispatch on the first character; the object  *)
(* arm slices off the first and last character and enters parse_object.    *)
Parse ==
    /\ pc = "start"
    /\ LET inp == trim(input)
       IN  IF inp # <<>> /\ Head(inp) = LBRACE /\ slice_ok(inp, 1, Len(inp) - 1)
           THEN /\ pairs' = make_pairs(slice(inp, 1, Len(inp) - 1))
                /\ idx' = 1
                /\ map' = {}
                /\ pc' = "object"
                /\ UNCHANGED result
           ELSE /\ result' = parse(input)
                /\ pc' = "done"
                /\ UNCHANGED <<pairs, idx, map>>
    /\ UNCHANGED <<src, input, value, entries, out>>

(* One iteration of the for loop of parse_object.                          *)
ParseObjectPair ==
    /\ pc = "object"
    /\ idx <= Len(pairs)
    /\ LET pair == pairs[idx]
       IN  IF is_key_value(pair)
           THEN LET v == parse(pair[2])
                IN  IF v.kind = "Ok"
                    THEN /\ map' = insert(map, pair_key(pair), v.value)
                         /\ idx' = idx + 1
                         /\ UNCHANGED <<pc, result>>
                    ELSE /\ result' = v
                         /\ pc' = "done"
                         /\ UNCHANGED <<map, idx>>
           ELSE /\ result' = Err("Invalid object entry")
                /\ pc' = "done"
                /\ UNCHANGED <<map, idx>>
    /\ UNCHANGED <<src, input, value, entries, out, pairs>>

(* The loop is over: Ok(JsonValue::Object(map)).                           *)
ParseObjectReturn ==
    /\ pc = "object"
    /\ idx > Len(pairs)
    /\ result' = Ok(JsonObject(map))
    /\ pc' = "done"
    /\ UNCHANGED <<src, input, value, entries, out, pairs, idx, map>>

Next == Fmt \/ ParseOutput \/ Parse \/ ParseObjectPair \/ ParseObjectReturn

Spec == Init /\ [][Next]_vars

(* The loop taken step by step returns what the recursive parse returns.   *)
StepwiseAgrees == pc = "done" => result = parse(input)

(***************************************************************************)
(* Vocabulary of the properties                                            *)
(***************************************************************************)
Trimmed == trim(input)

(* The trimmed input is an object text: `{`, an interior, a last character *)
IsObjectText == Len(Trimmed) >= 2 /\ Trimmed[1] = LBRACE

Interior == SubSeq(Trimmed, 2, Len(Trimmed) - 1)

Segments == split(Interior, COMMA)

HasColon(sg) == \E i \in 1..Len(sg) : sg[i] = COLON

FirstColon(sg) == CHOOSE i \in 1..Len(sg) : sg[i] = COLON /\ \A j \in 1..(i - 1) : sg[j] # COLON

KeyPart(sg) == trim(SubSeq(sg, 1, FirstColon(sg) - 1))

ValuePart(sg) == trim(SubSeq(sg, FirstColon(sg) + 1, Len(sg)))

SegKey(sg) == trim_matches(KeyPart(sg), DQUOTE)

ParsesOk(txt) == parse(txt).kind = "Ok"

Contains(s, c) == \E i \in 1..Len(s) : s[i] = c

ReturnedObject == pc = "done" /\ result.kind = "Ok" /\ result.value.tag = "Object"

(* C1: no input makes parse or its helpers panic; every call returns Ok or *)
(* Err.                                                                    *)
C1_NeverPanics == pc = "done" => result.kind \in {"Ok", "Err"}

(* C2: parse("{}") returns Ok(Object(empty map)).                          *)
C2_EmptyObjectParses ==
    (pc = "done" /\ Trimmed = <<LBRACE, RBRACE>>) => result = Ok(JsonObject({}))

KeyOrder(hm) ==
    CHOOSE f \in iter_orders(hm) :
        \A i, j \in 1..Len(f) : i < j => str_lt(f[i].key, f[j].key)

(* C3: to_string of an Object writes its entries in ascending order of the *)
(* key strings, whatever the iteration order of the map.                   *)
C3_EntriesInKeyOrder ==
    (pc = "formatted" /\ value.tag = "Object") =>
        out = <<LBRACE>>
              \o join([i \in 1..Cardinality(value.m) |->
                          <<DQUOTE>> \o KeyOrder(value.m)[i].key \o <<DQUOTE, COLON>>
                          \o to_string(KeyOrder(value.m)[i].value)], COMMA)
              \o <<RBRACE>>

RECURSIVE QuoteFree(_)
QuoteFree(v) ==
    /\ v.tag = "String" => ~Contains(v.s, DQUOTE)
    /\ \A e \in v.m : QuoteFree(e.value)

(* C4: parse(to_string(v)) returns Ok(v) for every value tree v whose text *)
(* variants hold no quote character.                                       *)
C4_RoundTrip ==
    (src = "value" /\ pc = "done" /\ QuoteFree(value)) =>
        result.kind = "Ok" /\ value_eq(result.value, value)

(* C5: a trimmed input that starts with a quote parses to the text between *)
(* its first and last character when it also ends with a quote and is at   *)
(* least two characters long, and fails with 'Invalid string format' in    *)
(* every other case, the lone quote included.                              *)
C5_StringParsing ==
    (pc = "done" /\ starts_with(Trimmed, DQUOTE)) =>
        IF Len(Trimmed) >= 2 /\ Trimmed[Len(Trimmed)] = DQUOTE
        THEN result = Ok(JsonString(SubSeq(Trimmed, 2, Len(Trimmed) - 1)))
        ELSE result = Err("Invalid string format")

FlatObjectText ==
    /\ IsObjectText
    /\ Trimmed[Len(Trimmed)] = RBRACE
    /\ \A i \in 1..Len(Segments) :
          HasColon(Segments[i]) /\ ParsesOk(ValuePart(Segments[i]))
    /\ \A i, j \in 1..Len(Segments) :
          SegKey(Segments[i]) = SegKey(Segments[j]) => i = j

(* C6: an object text whose N comma pieces each hold a colon, have         *)
(* distinct keys and a value part that parses, parses to an Object of      *)
(* exactly N entries, each key (the text before the first colon, trimmed,  *)
(* quotes stripped) mapped to the parse of everything after that colon.    *)
C6_FlatObject ==
    (pc = "done" /\ FlatObjectText) =>
        /\ ReturnedObject
        /\ Cardinality(result.value.m) = Len(Segments)
        /\ \A i \in 1..Len(Segments) :
              Entry(SegKey(Segments[i]), parse(ValuePart(Segments[i])).value)
                  \in result.value.m

C6_Witness ==
    /\ pc = "done" /\ FlatObjectText /\ ReturnedObject
    /\ Len(Segments) >= 2
    /\ input # Trimmed
    /\ \E i \in 1..Len(Segments) :
          /\ Contains(ValuePart(Segments[i]), COLON)
          /\ Contains(KeyPart(Segments[i]), DQUOTE)

(* C7: an empty or blank input fails with 'Empty input'; a trimmed input   *)
(* that starts with neither quote nor brace yields Boolean(true) iff it is *)
(* `true`, Boolean(false) iff it is `false`, Null iff it is `null`, and    *)
(* otherwise what number parsing yields, so `tru` fails with 'Invalid      *)
(* number format'; nothing returns 'Invalid boolean format'.               *)
C7_LiteralDispatch ==
    pc = "done" =>
        /\ Trimmed = <<>> => result = Err("Empty input")
        /\ (Trimmed # <<>> /\ Trimmed[1] \notin {DQUOTE, LBRACE}) =>
              /\ result = Ok(JsonBoolean(TRUE)) <=> Trimmed = LitTrue
              /\ result = Ok(JsonBoolean(FALSE)) <=> Trimmed = LitFalse
              /\ result = Ok(JsonNull) <=> Trimmed = LitNull
              /\ Trimmed \notin {LitTrue, LitFalse, LitNull} =>
                    result = parse_number(Trimmed)
        /\ Trimmed = LitTru => result = Err("Invalid number format")
        /\ result.msg # "Invalid boolean format"

C7_Witness ==
    /\ pc = "done"
    /\ input # Trimmed
    /\ Trimmed = LitTrue
    /\ result = Ok(JsonBoolean(TRUE))

BadSegment(sg) == ~HasColon(sg) \/ KeyPart(sg) = <<>> \/ ValuePart(sg) = <<>>

(* C8 as stated: an object interior with a comma piece that has no colon,  *)
(* an empty key part or an empty value part fails with 'Invalid object     *)
(* entry'.                                                                 *)
C8_Original ==
    (pc = "done" /\ IsObjectText /\ \E i \in 1..Len(Segments) : BadSegment(Segments[i]))
        => result = Err("Invalid object entry")

EarlierAccepted(i) ==
    \A j \in 1..(i - 1) : HasColon(Segments[j]) /\ ParsesOk(ValuePart(Segments[j]))

(* C8 as amended: when every earlier piece has a colon and a value part    *)
(* that parses, a piece with no colon fails with 'Invalid object entry', a *)
(* piece with a colon and an empty value part fails with 'Empty input',    *)
(* and a piece with an empty key part and a value part that parses is      *)
(* accepted as the entry of the empty key.                                 *)
C8_Amended ==
    (pc = "done" /\ IsObjectText) =>
        \A i \in 1..Len(Segments) :
            EarlierAccepted(i) =>
                /\ ~HasColon(Segments[i]) => result = Err("Invalid object entry")
                /\ (HasColon(Segments[i]) /\ ValuePart(Segments[i]) = <<>>) =>
                      result = Err("Empty input")
                /\ ( /\ HasColon(Segments[i])
                     /\ KeyPart(Segments[i]) = <<>>
                     /\ \A j \in 1..Len(Segments) :
                           HasColon(Segments[j]) /\ ParsesOk(ValuePart(Segments[j])) ) =>
                      /\ ReturnedObject
                      /\ \E e \in result.value.m : e.key = <<>>

C8_Witness ==
    /\ pc = "done" /\ IsObjectText
    /\ Len(Segments) = 2
    /\ HasColon(Segments[1]) /\ KeyPart(Segments[1]) = <<>>
    /\ ParsesOk(ValuePart(Segments[1]))
    /\ ~HasColon(Segments[2])
    /\ result = Err("Invalid object entry")

IsIntended == result.kind = "Ok" /\ value_eq(result.value, value)

TextWithComma(v) == v.tag = "String" /\ Contains(v.s, COMMA)

(* C9 as stated: an object one of whose values is a nested object (of      *)
(* zero, one or several entries) or a text with a comma parses             *)
(* incorrectly: parse does not return the intended value.                  *)
C9_Original ==
    ( /\ src = "value" /\ pc = "done" /\ value.tag = "Object"
      /\ \E e \in value.m : e.value.tag = "Object" \/ TextWithComma(e.value) ) =>
        ~IsIntended

PlainEntry(e) ==
    \/ e.value.tag \in {"Number", "Boolean", "Null"}
    \/ e.value.tag = "String" /\ ~Contains(e.value.s, COMMA) /\ ~Contains(e.value.s, DQUOTE)

(* C9 as amended: an object one of whose values is a nested object of zero *)
(* or several entries, or a text with a comma, does not parse back to the  *)
(* intended value (parse returns an error, a different value, or panics);  *)
(* an object whose values are plain or nested objects of exactly one plain *)
(* entry does parse back to the intended value.                            *)
C9_Amended ==
    (src = "value" /\ pc = "done" /\ value.tag = "Object") =>
        /\ (\E e \in value.m :
               \/ e.value.tag = "Object" /\ Cardinality(e.value.m) # 1
               \/ TextWithComma(e.value)) => ~IsIntended
        /\ ( /\ value.m # {}
             /\ \A e \in value.m :
                   \/ PlainEntry(e)
                   \/ /\ e.value.tag = "Object"
                      /\ Cardinality(e.value.m) = 1
                      /\ \A g \in e.value.m : PlainEntry(g) ) => IsIntended

C9_Witness ==
    /\ src = "value" /\ pc = "done" /\ value.tag = "Object"
    /\ \E e \in value.m : e.value.tag = "Object" /\ Cardinality(e.value.m) = 1
    /\ \E e \in value.m : e.value.tag = "Object" /\ Cardinality(e.value.m) = 2
    /\ result.kind = "Err"

KeysSeen == {pair_key(pairs[j]) : j \in 1..(idx - 1)}

LastWith(k) ==
    CHOOSE j \in 1..(idx - 1) :
        pair_key(pairs[j]) = k /\ \A i \in (j + 1)..(idx - 1) : pair_key(pairs[i]) # k

LastWins(hm) ==
    /\ \A e, g \in hm : e.key = g.key => e = g
    /\ {e.key : e \in hm} = KeysSeen
    /\ \A e \in hm : e.value = parse(pairs[LastWith(e.key)][2]).value

(* C10: during the loop of parse_object the map holds exactly one entry    *)
(* per distinct key seen so far, the entry of the last piece with that     *)
(* key; when every piece has a colon and a value part that parses, the     *)
(* call returns that map as an Object and a duplicate key raises no error. *)
C10_LastWriteWins ==
    /\ pc = "object" => LastWins(map)
    /\ (pc = "done" /\ IsObjectText
        /\ \A i \in 1..Len(pairs) : Len(pairs[i]) = 2 /\ ParsesOk(pairs[i][2])) =>
          ReturnedObject /\ idx = Len(pairs) + 1 /\ LastWins(result.value.m)

C10_Witness ==
    /\ ReturnedObject
    /\ \E i, j \in 1..Len(pairs) :
          /\ i < j
          /\ pair_key(pairs[i]) = pair_key(pairs[j])
          /\ parse(pairs[i][2]) # parse(pairs[j][2])
          /\ Entry(pair_key(pairs[j]), parse(pairs[j][2]).value) \in result.value.m

====
